---- MODULE Spec2Model ----
(***************************************************************************)
(* MaudeView agent: the MCP subprocess client (JSON-RPC 2.0 over the       *)
(* child's stdin/stdout), and the LM Studio agent loop that drives it.     *)
(*                                                                         *)
(*   lmstudio/mcp_subprocess.py   MCPSubprocess                            *)
(*   lmstudio/agent.py            LMStudioAgent                            *)
(*   main.py                      _run_lmstudio_chat (the agent lifecycle)  *)
(*                                                                         *)
(* Coroutines are tasks; an atomic step is the code between two awaits.    *)
(* JSON objects (dicts) are functions whose DOMAIN is the set of keys.     *)
(***************************************************************************)
EXTENDS Naturals, Sequences, FiniteSets

\* ------------------------------------------------------------------ bounds
MaxReq   == 3   \* with direct callers, the client numbers at most this many requests
MaxTurns == 2   \* max_turns of a query is drawn from 0..MaxTurns
MaxStops == 2   \* stop() is called at most this many times by an external owner
MaxTools == 2     \* tools in a tools/list result
MaxParts == 2     \* content parts in a tools/call result
MaxChatReq == 4   \* a chat session asks for another query while fewer requests were numbered

\* ------------------------------------------------------------------ tasks
Agent   == "agent"            \* the coroutine running LMStudioAgent (main.py)
Callers == {"c1", "c2"}       \* coroutines using one MCPSubprocess directly
Tasks   == Callers \cup {Agent}

VARIABLES
    \* MCPSubprocess
    handle,       \* self._process is not None
    child,        \* the OS process: "none" | "running" | "exited"
    returncode,   \* self._process.returncode is not None
    signals,      \* signals delivered to the child, in order
    request_id,   \* self._request_id
    lock,         \* self._lock: the task holding it, or "free"
    wire,         \* frames written to the child's stdin, in order
    startpc,      \* MCPSubprocess.start: "idle"|"init"|"notif"|"list"|"done"|"failed"
    stoppc,       \* MCPSubprocess.stop: "idle" | "wait"
    stops,        \* completed stop() calls
    stopret,      \* how the last stop() ended: "none" | "returned" | "raised"
    \* one slot per task for its call into MCPSubprocess
    cpc,          \* "idle" | "acquire" | "drain" | "read" | "ret"
    creq,         \* the frame being sent (without its id)
    cid,          \* req_id of _send_request (0: none)
    cret,         \* how the call ended
    rline,        \* _read_response: the line read last (locals raw, msg): kind and id
    msg,          \* _read_response: the members of msg when its id is the expected one
    \* LMStudioAgent
    apc,          \* `async with LMStudioAgent()`: "start" | "entered" | "query" |
                  \*   "stop" | "stop_mcp" | "exited" | "failed"
    llm,          \* LMStudioClient: "none" | "started" | "stopped"
    tools,        \* MCPSubprocess._tools
    allowed_tools,   \* prompts.ALLOWED_TOOLS: each name as its "__"-separated segments
    tools_anthropic, \* LMStudioAgent._tools_anthropic
    starterr,     \* exception raised by LMStudioAgent.start between its awaits
    qpc,          \* query: "idle" | "loop" | "tool" | "done" | "raised"
    max_turns,    \* parameter of query
    turn,         \* loop variable of query
    nreq,         \* model requests made by the current query
    messages,     \* local list `messages`
    content,      \* local `content`: the content of the last model response
    tool_calls_made,
    tool_uses,    \* tool_use blocks of the current turn
    tuIdx,        \* index of the tool_use block being dispatched
    tool_results, \* local list `tool_results`
    qresult,      \* AgentResponse returned by query
    prev_calls,   \* tool_calls_made as it stood at the end of the previous turn
    \* the A2A server
    tasks,        \* task_handler.tasks: the state of each task id, or "absent"
    proc,         \* the process_task coroutines: position and task
    rpc           \* how the last JSON-RPC method handler ended

procVars  == <<handle, child, returncode, signals>>
wireVars  == <<request_id, lock, wire>>
stopVars  == <<stoppc, stops, stopret>>
mcpVars   == <<procVars, wireVars, startpc, stopVars>>
callVars  == <<cpc, creq, cid, cret, rline, msg>>
queryVars == <<qpc, max_turns, turn, nreq, messages, content, tool_calls_made,
               tool_uses, tuIdx, tool_results, qresult, prev_calls>>
taskVars  == <<tasks, proc, rpc>>
toolVars  == <<allowed_tools, tools_anthropic, starterr, taskVars>>
agentVars == <<apc, llm, tools, toolVars>>
vars      == <<mcpVars, callVars, agentVars, queryVars>>

\* ------------------------------------------------------------- JSON values
EmptyObj == [k \in {} |-> ""]
Null == [null |-> TRUE]     \* JSON null / Python None as the value of a member

\* dict.get(key, default)
Get(o, k, d) == IF k \in DOMAIN o THEN o[k] ELSE d

\* "\n".join(parts)
RECURSIVE Join(_)
Join(parts) ==
    IF parts = <<>> THEN ""
    ELSE IF Len(parts) = 1 THEN parts[1]
    ELSE parts[1] \o "\n" \o Join(Tail(parts))

\* [f(x) for x in s if p(x)] for the two comprehensions the code uses
RECURSIVE OfType(_, _)
OfType(blocks, ty) ==
    IF blocks = <<>> THEN <<>>
    ELSE IF Get(Head(blocks), "type", "") = ty
         THEN <<Head(blocks)>> \o OfType(Tail(blocks), ty)
         ELSE OfType(Tail(blocks), ty)

RECURSIVE Texts(_)
Texts(blocks) ==
    IF blocks = <<>> THEN <<>>
    ELSE <<Get(Head(blocks), "text", "")>> \o Texts(Tail(blocks))

\* ------------------------------------------------- what the child may emit
IntId(n) == [t |-> "int", v |-> n]
StrId(n) == [t |-> "str", v |-> n]      \* the JSON string "n"

TextPart(s) == [type |-> "text", text |-> s]
ImagePart   == [type |-> "image"]

\* result objects of a response
Results ==
    { [content |-> <<ImagePart, TextPart("r"), TextPart("s")>>],
      [content |-> <<TextPart("e")>>, isError |-> TRUE] }

ErrObj == [code |-> "-32000", message |-> "boom"]

\* a JSON object carrying an id: the members besides "id"
RespBodies ==
    { [result |-> r] : r \in Results }
    \cup { [result |-> CHOOSE r \in Results : Get(r, "isError", FALSE), error |-> Null],
           [error |-> ErrObj], EmptyObj }

\* the ids the child may answer with once n requests were numbered: those, the
\* next one, and a JSON string
RespIds(n) == {IntId(i) : i \in 1..(n + 1)} \cup {StrId(1)}

\* one stdout line of the child
Lines(n) ==
    { [kind |-> k] : k \in {"blank", "nonjson", "nonobject", "undecodable", "notification"} }
    \cup { [kind |-> "response", id |-> i, body |-> b] : i \in RespIds(n), b \in RespBodies }


\* ------------------------------------------------------- outcomes of a call
NoLine == [kind |-> "none"]
NoReq  == [kind |-> "none"]
NoRet  == [kind |-> "none"]
Returned(v, i) == [kind |-> "ok", value |-> v, id |-> i]
Raised(ty, txt)   == [kind |-> "raise", exc |-> ty, text |-> txt]

Request(m, n)   == [kind |-> "request", method |-> m, name |-> n]
Notification(m) == [kind |-> "notification", method |-> m, name |-> "-"]

\* the frame json.dumps(message) of _send_request / _send_notification
Frame(req, i) == [kind |-> req.kind, id |-> i, method |-> req.method, name |-> req.name]

\* ---------------------------------------------------------- MCPSubprocess
\* self._request_id += 1
NextRequestId_Reuse(rid) == IF rid = 0 THEN 1 ELSE rid
NextRequestId(rid) == rid + 1

\* `async with self._lock` can be entered
LockFree_NoLock == TRUE
LockFree == lock = "free"

\* msg["id"] != expected_id is false (Python equality of the decoded id and the int)
IdMatches_Any(msgid, expected) == TRUE
IdMatches_NotNewer(msgid, expected) == msgid.t = "int" /\ msgid.v <= expected
IdMatches(msgid, expected) == msgid.t = "int" /\ msgid.v = expected

\* One iteration of the loop of _read_response on a line that was read:
\* what it does with it.
ReadResponse_IgnoreError(ln, expected) ==
    IF ln.kind = "response" /\ IdMatches(ln.id, expected)
    THEN [act |-> "return", value |-> Get(ln.body, "result", EmptyObj)]
    ELSE [act |-> "continue"]
ReadResponse(ln, expected) ==
    IF ln.kind = "undecodable"
    THEN [act |-> "raise", exc |-> "UnicodeDecodeError", text |-> "invalid start byte"]
    ELSE IF ln.kind = "blank" THEN [act |-> "continue"]
    ELSE IF ln.kind = "nonjson" THEN [act |-> "continue"]
    ELSE IF ln.kind = "nonobject"
    THEN [act |-> "raise", exc |-> "TypeError", text |-> "argument is not iterable"]
    ELSE IF ln.kind = "notification" THEN [act |-> "continue"]
    ELSE IF ~IdMatches(ln.id, expected) THEN [act |-> "continue"]
    ELSE IF "error" \in DOMAIN ln.body /\ ln.body.error # Null
    THEN [act |-> "raise", exc |-> "RuntimeError",
          text |-> "MCP error " \o ln.body.error.code \o ": " \o ln.body.error.message]
    ELSE [act |-> "return", value |-> Get(ln.body, "result", EmptyObj)]

\* a task enters _send_request / _send_notification
Invoke(t, req) ==
    /\ cpc' = [cpc EXCEPT ![t] = "acquire"]
    /\ creq' = [creq EXCEPT ![t] = req]
    /\ cid' = [cid EXCEPT ![t] = 0]
    /\ cret' = [cret EXCEPT ![t] = NoRet]
    /\ rline' = [rline EXCEPT ![t] = NoLine]
    /\ msg' = [msg EXCEPT ![t] = NoLine]

\* the caller of task t's call has taken its outcome
Idle(t) ==
    /\ cpc' = [cpc EXCEPT ![t] = "idle"]
    /\ creq' = [creq EXCEPT ![t] = NoReq]
    /\ cid' = [cid EXCEPT ![t] = 0]
    /\ cret' = [cret EXCEPT ![t] = NoRet]
    /\ rline' = [rline EXCEPT ![t] = NoLine]
    /\ msg' = [msg EXCEPT ![t] = NoLine]

\* leaving `async with self._lock`, by return or by exception: the lock after
\* task t's call ended with outcome r
LockAfter_ReturnOnly(l, t, r) == IF l = t /\ r.kind = "ok" THEN "free" ELSE l
LockAfter(l, t, r) == IF l = t THEN "free" ELSE l

\* the call of task t ends with outcome r; the lock is released if t holds it
Finish(t, r) ==
    /\ cpc' = [cpc EXCEPT ![t] = "ret"]
    /\ cret' = [cret EXCEPT ![t] = r]
    /\ lock' = LockAfter(lock, t, r)

\* _send_request up to the first await: take the lock, number the request, write it
SendRequest(t) ==
    /\ cpc[t] = "acquire"
    /\ creq[t].kind = "request"
    /\ LockFree
    /\ request_id' = NextRequestId(request_id)
    /\ cid' = [cid EXCEPT ![t] = request_id']
    /\ IF handle
       THEN /\ wire' = Append(wire, Frame(creq[t], request_id'))
            /\ lock' = t
            /\ cpc' = [cpc EXCEPT ![t] = "drain"]
            /\ UNCHANGED cret
       ELSE \* _write: assert self._process
            /\ cpc' = [cpc EXCEPT ![t] = "ret"]
            /\ cret' = [cret EXCEPT ![t] = Raised("AssertionError", "")]
            /\ UNCHANGED <<wire, lock>>
    /\ UNCHANGED <<procVars, rline, msg, startpc, stopVars, creq, agentVars, queryVars>>

\* _send_notification up to the first await
SendNotification(t) ==
    /\ cpc[t] = "acquire"
    /\ creq[t].kind = "notification"
    /\ LockFree
    /\ IF handle
       THEN /\ wire' = Append(wire, Frame(creq[t], 0))
            /\ lock' = t
            /\ cpc' = [cpc EXCEPT ![t] = "drain"]
            /\ UNCHANGED cret
       ELSE /\ cpc' = [cpc EXCEPT ![t] = "ret"]
            /\ cret' = [cret EXCEPT ![t] = Raised("AssertionError", "")]
            /\ UNCHANGED <<wire, lock>>
    /\ UNCHANGED <<procVars, request_id, rline, msg, startpc, stopVars, creq, cid,
                   agentVars, queryVars>>

\* _write: await stdin.drain() returns
Drain(t) ==
    /\ cpc[t] = "drain"
    /\ IF creq[t].kind = "request"
       THEN /\ cpc' = [cpc EXCEPT ![t] = "read"]
            /\ UNCHANGED <<cret, lock>>
       ELSE Finish(t, Returned(EmptyObj, IntId(0)))
    /\ UNCHANGED <<procVars, request_id, wire, rline, msg, startpc, stopVars, creq, cid,
                   agentVars, queryVars>>

\* _write: await stdin.drain() raises, the pipe to an exited child is broken
DrainFails(t) ==
    /\ cpc[t] = "drain"
    /\ child = "exited"
    /\ Finish(t, Raised("BrokenPipeError", "Broken pipe"))
    /\ UNCHANGED <<procVars, request_id, wire, rline, msg, startpc, stopVars, creq, cid,
                   agentVars, queryVars>>

\* _read_response: readline() yields a line
ReadLine(t, ln) ==
    /\ cpc[t] = "read"
    /\ LET r == ReadResponse(ln, cid[t])
       IN  /\ rline' = [rline EXCEPT ![t] = [kind |-> ln.kind, id |-> Get(ln, "id", IntId(0))]]
           /\ msg' = [msg EXCEPT ![t] =
                        IF ln.kind = "response" /\ IdMatches(ln.id, cid[t])
                        THEN ln.body ELSE NoLine]
           /\ CASE r.act = "continue" -> UNCHANGED <<cpc, cret, lock>>
                [] r.act = "raise"    -> Finish(t, Raised(r.exc, r.text))
                [] r.act = "return"   -> Finish(t, Returned(r.value, ln.id))
    /\ UNCHANGED <<procVars, request_id, wire, startpc, stopVars, creq, cid, agentVars,
                   queryVars>>

\* `if not raw: raise RuntimeError(...)`
EOFOutcome_EmptyResult == Returned(EmptyObj, IntId(0))
EOFOutcome == Raised("RuntimeError", "MCP subprocess stdout closed unexpectedly")

\* _read_response: readline() yields b"" (EOF), the child closed its stdout
ReadEOF(t) ==
    /\ cpc[t] = "read"
    /\ child = "exited"
    /\ Finish(t, EOFOutcome)
    /\ UNCHANGED <<procVars, request_id, wire, rline, msg, startpc, stopVars, creq, cid,
                   agentVars, queryVars>>


\* the first request of start: await self._send_request("initialize", {...})
HandshakeRequest_ListFirst == Request("tools/list", "-")
HandshakeRequest == Request("initialize", "-")

\* MCPSubprocess.start, first step: create_subprocess_exec, then the initialize
\* request is entered.  The exec may fail (no such binary): self._process stays None.
McpStartSpawn(t) ==
    /\ startpc = "idle"
    /\ cpc[t] = "idle"
    /\ \/ /\ handle' = TRUE
          /\ child' = "running"
          /\ startpc' = "init"
          /\ Invoke(t, HandshakeRequest)
       \/ /\ startpc' = "failed"
          /\ UNCHANGED <<handle, child, callVars>>
    /\ UNCHANGED <<returncode, signals, wireVars, stopVars, agentVars, queryVars>>

\* an awaited _send_request / _send_notification returned: start goes on to its
\* next statement; otherwise the exception leaves start
AwaitReturned_Always(ret) == TRUE
AwaitReturned(ret) == ret.kind = "ok"

\* start: the initialize request came back; send notifications/initialized
McpStartInitialized(t) ==
    /\ startpc = "init"
    /\ cpc[t] = "ret"
    /\ IF AwaitReturned(cret[t])
       THEN /\ startpc' = "notif"
            /\ Invoke(t, Notification("notifications/initialized"))
       ELSE /\ startpc' = "failed"
            /\ Idle(t)
    /\ UNCHANGED <<procVars, wireVars, stopVars, agentVars, queryVars>>

\* start: the notification was written; request tools/list
McpStartNotified(t) ==
    /\ startpc = "notif"
    /\ cpc[t] = "ret"
    /\ IF AwaitReturned(cret[t])
       THEN /\ startpc' = "list"
            /\ Invoke(t, Request("tools/list", "-"))
       ELSE /\ startpc' = "failed"
            /\ Idle(t)
    /\ UNCHANGED <<procVars, wireVars, stopVars, agentVars, queryVars>>

\* start: tools/list came back; start returns the tools, or raises
McpStartListed(t) ==
    /\ startpc = "list"
    /\ cpc[t] = "ret"
    /\ IF AwaitReturned(cret[t])
       THEN /\ startpc' = "done"
            /\ tools' = Get(cret[t].value, "tools", <<>>)
       ELSE /\ startpc' = "failed"
            /\ UNCHANGED tools
    /\ Idle(t)
    /\ UNCHANGED <<procVars, wireVars, stopVars, apc, llm, toolVars, queryVars>>

\* `except ProcessLookupError: pass` of stop
StopOnLookupError_Propagates == "raised"
StopOnLookupError == "returned"

\* self._process.send_signal(signal.SIGTERM)
TerminateSignal_Kill == "SIGKILL"
TerminateSignal == "SIGTERM"

\* MCPSubprocess.stop up to its first await: the early return, or SIGTERM.
\* A signal to a child that already exited is not delivered.
StopBegin ==
    /\ stoppc = "idle"
    /\ IF ~handle \/ returncode
       THEN /\ stops' = stops + 1
            /\ stopret' = "returned"
            /\ UNCHANGED <<signals, stoppc>>
       ELSE /\ signals' = IF child = "running" THEN Append(signals, TerminateSignal) ELSE signals
            /\ stoppc' = "wait"
            /\ UNCHANGED <<stops, stopret>>
    /\ UNCHANGED <<handle, child, returncode, wireVars, startpc, callVars, agentVars,
                   queryVars>>

\* stop: wait_for(self._process.wait(), 5.0) returns, the child has exited
StopWaited ==
    /\ stoppc = "wait"
    /\ child = "exited"
    /\ returncode' = TRUE
    /\ stoppc' = "idle"
    /\ stops' = stops + 1
    /\ stopret' = "returned"
    /\ UNCHANGED <<handle, child, signals, wireVars, startpc, callVars, agentVars,
                   queryVars>>

\* stop: the wait timed out with the child alive; kill() and wait()
StopKill ==
    /\ stoppc = "wait"
    /\ child = "running"
    /\ signals' = Append(signals, "SIGKILL")
    /\ child' = "exited"
    /\ returncode' = TRUE
    /\ stoppc' = "idle"
    /\ stops' = stops + 1
    /\ stopret' = "returned"
    /\ UNCHANGED <<handle, wireVars, startpc, callVars, agentVars, queryVars>>

\* stop: the wait timed out, the exit is processed before kill(): kill() raises
\* ProcessLookupError
StopKillLookupError ==
    /\ stoppc = "wait"
    /\ child = "exited"
    /\ returncode' = TRUE
    /\ stoppc' = "idle"
    /\ stops' = stops + 1
    /\ stopret' = StopOnLookupError
    /\ UNCHANGED <<handle, child, signals, wireVars, startpc, callVars, agentVars,
                   queryVars>>

\* ------------------------------------------------------------ the child
\* the child exits: on its own, or on a signal
ChildExit ==
    /\ child = "running"
    /\ child' = "exited"
    /\ UNCHANGED <<handle, returncode, signals, wireVars, startpc, stopVars, callVars,
                   agentVars, queryVars>>

\* the event loop's child watcher records the exit status
Reap ==
    /\ child = "exited"
    /\ ~returncode
    /\ returncode' = TRUE
    /\ UNCHANGED <<handle, child, signals, wireVars, startpc, stopVars, callVars,
                   agentVars, queryVars>>


\* --------------------------------------------- direct users of the client
ToolNames == {"A", "B"}

\* call_tool, after _send_request returned `result`: (text, is_error)
CallToolResult_AllParts(result) ==
    [text |-> Join(Texts(Get(result, "content", <<>>))),
     is_error |-> Get(result, "isError", FALSE)]
CallToolResult(result) ==
    [text |-> Join(Texts(OfType(Get(result, "content", <<>>), "text"))),
     is_error |-> Get(result, "isError", FALSE)]

\* a task calls call_tool(name, arguments)
CallTool(t, name) ==
    /\ cpc[t] = "idle"
    /\ Invoke(t, Request("tools/call", name))
    /\ UNCHANGED <<procVars, wireVars, startpc, stopVars, agentVars, queryVars>>

\* call_tool returns to (or raises into) its caller
CallToolReturn(t) ==
    /\ cpc[t] = "ret"
    /\ creq[t].method = "tools/call"
    /\ Idle(t)
    /\ UNCHANGED <<procVars, wireVars, startpc, stopVars, agentVars, queryVars>>

\* the task awaiting inside the client is cancelled: CancelledError unwinds
\* through `async with self._lock`
Cancel(t) ==
    /\ cpc[t] \in {"acquire", "drain", "read"}
    /\ Finish(t, Raised("CancelledError", ""))
    /\ UNCHANGED <<procVars, request_id, wire, rline, msg, startpc, stopVars, creq, cid,
                   agentVars, queryVars>>

\* the owner of the client calls stop()
ExtStop ==
    /\ stops < MaxStops
    /\ StopBegin

\* ------------------------------------------------------------ LMStudioAgent
TextBlock(s)   == [type |-> "text", text |-> s]
ToolUse(n, i)  == [type |-> "tool_use", name |-> n, id |-> i]

\* what the model may answer: the "content" of a response
Contents ==
    { <<>>,
      <<TextBlock("Hello")>>,
      <<TextBlock("")>>,
      <<TextBlock(""), TextBlock("")>>,
      <<[type |-> "text"]>>,
      <<TextBlock("a"), [type |-> "thinking"], TextBlock("b")>>,
      <<ToolUse("A", "u1")>>,
      <<TextBlock("a"), ToolUse("B", "u2"), ToolUse("A", "u1")>> }

\* a response of send_messages: with content, or without the key
ModelResponses == { [content |-> c, stop_reason |-> "end_turn"] : c \in Contents } \cup {EmptyObj}

NoTextSentinel   == "(no text response)"
MaxTurnsSentinel == "(max turns reached without final response)"

\* "\n".join(text_parts) or "(no text response)"
FinalText_NoSentinel(blocks) == Join(Texts(OfType(blocks, "text")))
FinalText(blocks) ==
    LET joined == Join(Texts(OfType(blocks, "text")))
    IN  IF joined = "" THEN NoTextSentinel ELSE joined

\* query is left: its locals messages, tool_uses, tool_results are gone
DropLocals ==
    /\ messages' = <<>>
    /\ tool_uses' = <<>>
    /\ tool_results' = <<>>
    /\ tuIdx' = 0

AgentReturn_FreshHistory(text, calls) ==
    [kind |-> "return", text |-> text, tool_calls_made |-> <<>>]
AgentReturn(text, calls) == [kind |-> "return", text |-> text, tool_calls_made |-> calls]
AgentRaise(txt)          == [kind |-> "raise", text |-> txt]

\* try: text, is_error = await call_tool(...)  except Exception as e: ...
\* applied to the way the call ended
ToolOutcome_Propagates(ret) ==
    IF ret.kind = "ok"
    THEN [raised |-> FALSE, text |-> CallToolResult(ret.value).text,
          is_error |-> CallToolResult(ret.value).is_error]
    ELSE [raised |-> TRUE, text |-> ret.text, is_error |-> TRUE]
ToolOutcome(ret) ==
    IF ret.kind = "ok"
    THEN [raised |-> FALSE, text |-> CallToolResult(ret.value).text,
          is_error |-> CallToolResult(ret.value).is_error]
    ELSE [raised |-> FALSE, text |-> "MCP error: " \o ret.text, is_error |-> TRUE]

ToolResult_NameAsId(tu, out) ==
    [type |-> "tool_result", tool_use_id |-> tu.name, content |-> out.text,
     is_error |-> out.is_error]
ToolResult(tu, out) ==
    [type |-> "tool_result", tool_use_id |-> tu.id, content |-> out.text,
     is_error |-> out.is_error]

\* `for turn in range(max_turns)` has another iteration
HasTurn_OneMore(t, mt) == t <= mt
HasTurn_OneLess(t, mt) == t + 1 < mt
HasTurn(t, mt) == t < mt

\* ------------------------------------------------------ tool schema adapter
\* t.split("__")[-1] of an allow-list entry given as its segments
Bare(segments) == segments[Len(segments)]

\* _ALLOWED_BARE = {t.split("__")[-1] for t in ALLOWED_TOOLS}
AllowedBare(allowed) == { Bare(allowed[i]) : i \in DOMAIN allowed }

\* t["name"] in _ALLOWED_BARE
IsAllowed_Everything(t, bare) == TRUE
IsAllowed(t, bare) == t.name \in bare

\* [t for t in mcp_tools if t["name"] in _ALLOWED_BARE]
RECURSIVE FilterAllowed(_, _)
FilterAllowed(ts, bare) ==
    IF ts = <<>> THEN <<>>
    ELSE (IF IsAllowed(Head(ts), bare) THEN <<Head(ts)>> ELSE <<>>)
         \o FilterAllowed(Tail(ts), bare)

DefaultSchema == [type |-> "object"]

\* if "properties" not in schema: schema["properties"] = {}
WithProperties(schema) ==
    IF "properties" \in DOMAIN schema THEN schema
    ELSE [k \in DOMAIN schema \cup {"properties"} |->
             IF k = "properties" THEN EmptyObj ELSE schema[k]]

\* one iteration of the loop of mcp_tools_to_anthropic: the exception it raises
\* ("none": it appends an entry).  dict(None) is a TypeError, tool["name"]
\* without the key a KeyError.
ToolRaises(tool) ==
    IF Get(tool, "inputSchema", DefaultSchema) = Null THEN "TypeError"
    ELSE IF "name" \notin DOMAIN tool THEN "KeyError"
    ELSE "none"

\* the entry appended for a tool
AnthropicTool(tool) ==
    [name |-> tool.name,
     description |-> Get(tool, "description", ""),
     input_schema |-> WithProperties(Get(tool, "inputSchema", DefaultSchema))]

\* mcp_tools_to_anthropic(mcp_tools): the list, or the exception of the first
\* tool that fails
RECURSIVE mcp_tools_to_anthropic(_)
mcp_tools_to_anthropic(mcp_tools) ==
    IF mcp_tools = <<>> THEN [raised |-> "none", value |-> <<>>]
    ELSE IF ToolRaises(Head(mcp_tools)) # "none"
    THEN [raised |-> ToolRaises(Head(mcp_tools)), value |-> <<>>]
    ELSE LET rest == mcp_tools_to_anthropic(Tail(mcp_tools))
         IN  IF rest.raised # "none" THEN rest
             ELSE [raised |-> "none",
                   value |-> <<AnthropicTool(Head(mcp_tools))>> \o rest.value]

\* lines 55-56 of LMStudioAgent.start: filter, then adapt.  The filter reads
\* t["name"] of every tool: a tool without a name is a KeyError.
StartTools(mcp_tools, allowed) ==
    IF \E i \in DOMAIN mcp_tools : "name" \notin DOMAIN mcp_tools[i]
    THEN [raised |-> "KeyError", value |-> <<>>]
    ELSE mcp_tools_to_anthropic(FilterAllowed(mcp_tools, AllowedBare(allowed)))

\* LMStudioAgent.start after `await self._mcp.start()` returned: the tools are
\* filtered and adapted and the LLM client is started; __aenter__ returns, or
\* raises what the filter or the adapter raised
AgentStarted ==
    /\ apc = "start"
    /\ startpc = "done"
    /\ LET r == StartTools(tools, allowed_tools)
       IN  IF r.raised = "none"
           THEN /\ tools_anthropic' = r.value
                /\ llm' = "started"
                /\ apc' = "entered"
                /\ UNCHANGED starterr
           ELSE /\ starterr' = r.raised
                /\ apc' = "failed"
                /\ UNCHANGED <<llm, tools_anthropic>>
    /\ UNCHANGED <<tools, allowed_tools, taskVars, mcpVars, callVars, queryVars>>

\* LMStudioAgent.start: LMStudioClient.start raises; __aenter__ raises
AgentLlmStartFails ==
    /\ apc = "start"
    /\ startpc = "done"
    /\ StartTools(tools, allowed_tools).raised = "none"
    /\ tools_anthropic' = StartTools(tools, allowed_tools).value
    /\ apc' = "failed"
    /\ UNCHANGED <<llm, tools, allowed_tools, starterr, taskVars, mcpVars, callVars, queryVars>>

\* LMStudioAgent.start: `await self._mcp.start()` raised; __aenter__ raises and
\* the body of `async with` and __aexit__ are not run
AgentStartFails ==
    /\ apc = "start"
    /\ startpc = "failed"
    /\ apc' = "failed"
    /\ UNCHANGED <<llm, tools, toolVars, mcpVars, callVars, queryVars>>

\* query(user_message, max_turns): the locals before the loop
QueryStart(mt) ==
    /\ apc' = "query"
    /\ qpc' = "loop"
    /\ max_turns' = mt
    /\ turn' = 0
    /\ nreq' = 0
    /\ messages' = << [role |-> "user", content |-> "hi"] >>
    /\ content' = <<>>
    /\ tool_calls_made' = <<>>
    /\ prev_calls' = <<>>
    /\ tool_uses' = <<>>
    /\ tuIdx' = 0
    /\ tool_results' = <<>>
    /\ qresult' = [kind |-> "none"]
    /\ UNCHANGED <<llm, tools, toolVars, mcpVars, callVars>>

\* the first query of the session
QueryBegin(mt) == apc = "entered" /\ QueryStart(mt)

\* the chat loop of main.py asks again once a query has returned
QueryAgain(mt) ==
    /\ apc = "query"
    /\ qpc = "done"
    /\ request_id < MaxChatReq
    /\ QueryStart(mt)

\* messages.append({"role": "assistant", "content": content})
AssistantMessage_ToolUseOnly(blocks) ==
    [role |-> "assistant", content |-> OfType(blocks, "tool_use")]
AssistantMessage(blocks) == [role |-> "assistant", content |-> blocks]

\* tool_name = tu["name"]; tool_calls_made.append(tool_name)
Dispatched_Distinct(calls, tu) ==
    IF \E i \in DOMAIN calls : calls[i] = tu.name THEN calls ELSE Append(calls, tu.name)
Dispatched(calls, tu) == Append(calls, tu.name)

\* one iteration of the loop up to its first tool call: the model request, the
\* assistant message, and either the final answer or the dispatch of the first
\* tool_use block
Turn(response) ==
    /\ qpc = "loop"
    /\ HasTurn(turn, max_turns)
    /\ nreq' = nreq + 1
    /\ content' = Get(response, "content", <<>>)
    /\ LET uses == OfType(content', "tool_use")
       IN  IF uses = <<>>
              THEN /\ qresult' = AgentReturn(FinalText(content'), tool_calls_made)
                   /\ qpc' = "done"
                   /\ DropLocals
                   /\ UNCHANGED <<tool_calls_made, callVars>>
              ELSE /\ messages' = Append(messages, AssistantMessage(content'))
                   /\ tool_uses' = uses
                   /\ tool_results' = <<>>
                   /\ tuIdx' = 1
                   /\ tool_calls_made' = Dispatched(tool_calls_made, uses[1])
                   /\ Invoke(Agent, Request("tools/call", uses[1].name))
                   /\ qpc' = "tool"
                   /\ UNCHANGED qresult
    /\ UNCHANGED <<apc, llm, tools, toolVars, mcpVars, max_turns, turn, prev_calls>>

\* where query is after `await self._llm.send_messages(...)` raised: there is
\* no try around it, the exception leaves query
OnModelError_Retry == "loop"
OnModelError == "raised"

\* the model request fails (connection, HTTP status >= 400): query raises
TurnFails ==
    /\ qpc = "loop"
    /\ HasTurn(turn, max_turns)
    /\ nreq' = nreq + 1
    /\ qresult' = AgentRaise("HTTPStatusError")
    /\ qpc' = OnModelError
    /\ DropLocals
    /\ UNCHANGED <<apc, llm, tools, toolVars, mcpVars, callVars, max_turns, turn, content,
                   tool_calls_made, prev_calls>>

\* call_tool came back for tool_use block tuIdx: its tool_result; then the next
\* block is dispatched, or the results are appended and the turn ends
ToolDone ==
    /\ qpc = "tool"
    /\ cpc[Agent] = "ret"
    /\ LET out == ToolOutcome(cret[Agent])
           results == Append(tool_results, ToolResult(tool_uses[tuIdx], out))
       IN  IF out.raised
           THEN /\ qresult' = AgentRaise(out.text)
                /\ qpc' = "raised"
                /\ Idle(Agent)
                /\ DropLocals
                /\ UNCHANGED <<turn, tool_calls_made, prev_calls>>
           ELSE IF tuIdx < Len(tool_uses)
           THEN /\ tool_results' = results
                /\ tuIdx' = tuIdx + 1
                /\ tool_calls_made' = Dispatched(tool_calls_made, tool_uses[tuIdx + 1])
                /\ Invoke(Agent, Request("tools/call", tool_uses[tuIdx + 1].name))
                /\ UNCHANGED <<qpc, turn, messages, qresult, prev_calls, tool_uses>>
           ELSE /\ tool_results' = results
                /\ messages' = Append(messages, [role |-> "user", content |-> results])
                /\ turn' = turn + 1
                /\ prev_calls' = tool_calls_made
                /\ qpc' = "loop"
                /\ Idle(Agent)
                /\ UNCHANGED <<tool_calls_made, tuIdx, qresult, tool_uses>>
    /\ UNCHANGED <<apc, llm, tools, toolVars, mcpVars, max_turns, nreq, content>>

\* the loop is exhausted: the max-turns sentinel
QueryBudget ==
    /\ qpc = "loop"
    /\ ~HasTurn(turn, max_turns)
    /\ qresult' = AgentReturn(MaxTurnsSentinel, tool_calls_made)
    /\ qpc' = "done"
    /\ DropLocals
    /\ UNCHANGED <<apc, llm, tools, toolVars, mcpVars, callVars, max_turns, turn, nreq, content,
                   tool_calls_made, prev_calls>>

\* the body of `async with` is left (quit, or query raised) and __aexit__ runs
\* LMStudioAgent.stop: first `await self._llm.stop()`
AgentStopLlm ==
    /\ \/ apc = "entered"
       \/ apc = "query" /\ qpc \in {"done", "raised"}
    /\ llm' = "stopped"
    /\ apc' = "stop_mcp"
    /\ UNCHANGED <<tools, toolVars, mcpVars, callVars, queryVars>>

\* LMStudioAgent.stop: `await self._llm.stop()` raises; stop is left
AgentStopLlmFails ==
    /\ \/ apc = "entered"
       \/ apc = "query" /\ qpc \in {"done", "raised"}
    /\ apc' = "failed"
    /\ UNCHANGED <<llm, tools, toolVars, mcpVars, callVars, queryVars>>

\* LMStudioAgent.stop: `await self._mcp.stop()` is entered
AgentStopMcp ==
    /\ apc = "stop_mcp"
    /\ stops = 0
    /\ StopBegin

\* LMStudioAgent.stop returned: __aexit__ is done
AgentExited ==
    /\ apc = "stop_mcp"
    /\ stops = 1
    /\ stoppc = "idle"
    /\ apc' = "exited"
    /\ UNCHANGED <<llm, tools, toolVars, mcpVars, callVars, queryVars>>

\* the lines the child may emit to the agent's client once n requests were
\* numbered: noise, the response to the request just sent, a late duplicate
AgentLines(n) ==
    { [kind |-> "blank"], [kind |-> "nonobject"] }
    \cup { [kind |-> "response", id |-> IntId(n), body |-> b] :
              b \in { [result |-> r] : r \in Results } \cup { [error |-> ErrObj] } }
    \cup { [kind |-> "response", id |-> IntId(n - 1), body |-> EmptyObj] }

\* ------------------------------------------------------------------ Init
InitMcp ==
    /\ handle = FALSE
    /\ child = "none"
    /\ returncode = FALSE
    /\ signals = <<>>
    /\ request_id = 0
    /\ lock = "free"
    /\ wire = <<>>
    /\ startpc = "idle"
    /\ stoppc = "idle"
    /\ stops = 0
    /\ stopret = "none"
    /\ cpc = [t \in Tasks |-> "idle"]
    /\ creq = [t \in Tasks |-> NoReq]
    /\ cid = [t \in Tasks |-> 0]
    /\ cret = [t \in Tasks |-> NoRet]
    /\ rline = [t \in Tasks |-> NoLine]
    /\ msg = [t \in Tasks |-> NoLine]

InitAgent ==
    /\ apc = "start"
    /\ llm = "none"
    /\ tools = <<>>
    /\ tools_anthropic = <<>>
    /\ starterr = "none"
    /\ qpc = "idle"
    /\ max_turns = 0
    /\ turn = 0
    /\ nreq = 0
    /\ messages = <<>>
    /\ content = <<>>
    /\ tool_calls_made = <<>>
    /\ tool_uses = <<>>
    /\ tuIdx = 0
    /\ tool_results = <<>>
    /\ qresult = [kind |-> "none"]
    /\ prev_calls = <<>>

\* ------------------------------------------------------------ A2A server
TaskIds == {"t1", "t2"}
Procs   == {"p1", "p2"}

\* models.TaskState, and "absent" for an id that is not a key of the registry
SUBMITTED == "submitted"
WORKING   == "working"
COMPLETED == "completed"
FAILED    == "failed"
CANCELED  == "canceled"

Registered == { i \in TaskIds : tasks[i] # "absent" }

\* server._handle_tasks_send with params.id = given ("none": no id).  A known
\* id selects its task; otherwise a Task with a fresh id is registered as
\* SUBMITTED.  The call process_task(task, message, model=...) then raises
\* TypeError, process_task taking no parameter `model`, before its body runs.
TasksSend(given) ==
    /\ IF given \in Registered
       THEN UNCHANGED tasks
       ELSE \E fresh \in TaskIds \ Registered :
               tasks' = [tasks EXCEPT ![fresh] = SUBMITTED]
    /\ rpc' = "TypeError"
    /\ UNCHANGED <<proc, mcpVars, callVars, queryVars, apc, llm, tools, allowed_tools,
                   tools_anthropic, starterr>>

\* TaskHandler.process_task(task, message) up to `await self._query_claude`:
\* the message is appended and the status set to WORKING
ProcessTaskBegin(p, i) ==
    /\ proc[p].pc = "idle"
    /\ i \in Registered
    /\ tasks' = [tasks EXCEPT ![i] = WORKING]
    /\ proc' = [proc EXCEPT ![p] = [pc |-> "query", task |-> i]]
    /\ UNCHANGED <<rpc, mcpVars, callVars, queryVars, apc, llm, tools, allowed_tools,
                   tools_anthropic, starterr>>

\* process_task after `await self._query_claude` returned (ok) or raised: the
\* status is set to COMPLETED, or to FAILED in the except clause
ProcessTaskEnd(p, ok) ==
    /\ proc[p].pc = "query"
    /\ tasks' = [tasks EXCEPT ![proc[p].task] = IF ok THEN COMPLETED ELSE FAILED]
    /\ proc' = [proc EXCEPT ![p] = [pc |-> "idle", task |-> "none"]]
    /\ UNCHANGED <<rpc, mcpVars, callVars, queryVars, apc, llm, tools, allowed_tools,
                   tools_anthropic, starterr>>

\* server._handle_tasks_cancel
TasksCancel(i) ==
    /\ IF i \in Registered
       THEN /\ tasks' = [tasks EXCEPT ![i] = CANCELED]
            /\ rpc' = "result"
       ELSE /\ rpc' = "ValueError"
            /\ UNCHANGED tasks
    /\ UNCHANGED <<proc, mcpVars, callVars, queryVars, apc, llm, tools, allowed_tools,
                   tools_anthropic, starterr>>

\* server._handle_tasks_get
TasksGet(i) ==
    /\ rpc' = IF i \in Registered THEN "result" ELSE "ValueError"
    /\ UNCHANGED <<tasks, proc, mcpVars, callVars, queryVars, apc, llm, tools, allowed_tools,
                   tools_anthropic, starterr>>

InitTasks ==
    /\ tasks = [i \in TaskIds |-> "absent"]
    /\ proc = [p \in Procs |-> [pc |-> "idle", task |-> "none"]]
    /\ rpc = "none"

\* The A2A server: JSON-RPC requests are handled concurrently, and process_task
\* is run on registered tasks by callers that pass what it accepts.
NextTasks ==
    \/ \E given \in TaskIds \cup {"none"} : TasksSend(given)
    \/ \E p \in Procs, i \in TaskIds : ProcessTaskBegin(p, i)
    \/ \E p \in Procs, ok \in BOOLEAN : ProcessTaskEnd(p, ok)
    \/ \E i \in TaskIds : TasksCancel(i)
    \/ \E i \in TaskIds : TasksGet(i)

\* prompts.ALLOWED_TOOLS (two of its entries)
ALLOWED_TOOLS ==
    << <<"mcp", "maudeview", "list_charts">>, <<"mcp", "maudeview", "get_chart">> >>

Init == InitMcp /\ InitAgent /\ InitTasks /\ allowed_tools = ALLOWED_TOOLS

SpecTasks == Init /\ [][NextTasks]_vars

\* the steps inside the client, for task t
AfterSend(t) ==
    \/ SendNotification(t)
    \/ Drain(t)
    \/ DrainFails(t)
    \/ \E ln \in Lines(request_id) : ReadLine(t, ln)
    \/ ReadEOF(t)

ClientStep(t) == SendRequest(t) \/ AfterSend(t)

StopStep == StopWaited \/ StopKill \/ StopKillLookupError

\* MCPSubprocess.start run by task t
StartStep(t) ==
    \/ McpStartSpawn(t)
    \/ McpStartInitialized(t)
    \/ McpStartNotified(t)
    \/ McpStartListed(t)

\* One MCPSubprocess used by concurrent tasks: c1 starts it, both call tools,
\* either may be cancelled while it waits, the child may exit at any time.
NextMcp ==
    \/ StartStep("c1")
    \/ \E t \in Callers :
        \/ CallTool(t, IF t = "c1" THEN "A" ELSE "B")
        \/ CallToolReturn(t)
        \/ Cancel(t)
        \/ request_id < MaxReq /\ SendRequest(t)
        \/ AfterSend(t)
    \/ ChildExit

SpecMcp == Init /\ [][NextMcp]_vars

\* One MCPSubprocess started by c1 and stopped, any number of times and at any
\* moment, by its owner.
NextStop ==
    \/ StartStep("c1")
    \/ ClientStep("c1")
    \/ ExtStop
    \/ StopStep
    \/ ChildExit
    \/ Reap

SpecStop == Init /\ [][NextStop]_vars

\* The same with the event loop's scheduling: a coroutine whose await can
\* complete is resumed (a write that can drain, readline() at EOF, wait() of an
\* exited child).  What the child does, and when, is not constrained: it may
\* print a line, exit, or stay silent, and stop() may or may not be called.
SpecLive ==
    /\ Init
    /\ [][NextStop]_vars
    /\ WF_vars(StartStep("c1"))
    /\ WF_vars(SendRequest("c1") \/ SendNotification("c1"))
    /\ WF_vars(Drain("c1") \/ DrainFails("c1"))
    /\ WF_vars(ReadEOF("c1"))
    /\ WF_vars(StopStep)

\* The agent's lifecycle in main.py: `async with LMStudioAgent() as agent`, a
\* query, and the exit.
Next ==
    \/ StartStep(Agent)
    \/ AgentStarted
    \/ AgentLlmStartFails
    \/ AgentStartFails
    \/ \E mt \in 0..MaxTurns : QueryBegin(mt)
    \/ \E r \in ModelResponses : Turn(r)
    \/ TurnFails
    \/ ToolDone
    \/ QueryBudget
    \/ SendRequest(Agent)
    \/ SendNotification(Agent)
    \/ Drain(Agent)
    \/ DrainFails(Agent)
    \/ \E ln \in AgentLines(request_id) : ReadLine(Agent, ln)
    \/ ReadEOF(Agent)
    \/ AgentStopLlm
    \/ AgentStopLlmFails
    \/ AgentStopMcp
    \/ StopStep
    \/ AgentExited
    \/ ChildExit
    \/ Reap

Spec == Init /\ [][Next]_vars

\* ------------------------------------------ start with any tool list
\* tool descriptors of a tools/list result
Descriptors ==
    { [name |-> "list_charts", inputSchema |-> [type |-> "object"]],
      [name |-> "list_charts"],
      [name |-> "evil", description |-> "d",
       inputSchema |-> [type |-> "object", properties |-> [q |-> "string"],
                        required |-> <<"q">>]],
      [name |-> "get_chart", description |-> "", inputSchema |-> EmptyObj],
      [name |-> "get_chart", inputSchema |-> [type |-> "object", properties |-> Null]],
      [name |-> "evil", inputSchema |-> Null],
      [name |-> "get_chart", inputSchema |-> Null],
      [description |-> "d"] }

ToolLists == UNION { [1..n -> Descriptors] : n \in 0..MaxTools }

\* values of ALLOWED_TOOLS
AllowLists ==
    { ALLOWED_TOOLS,
      << <<"mcp", "maudeview", "list_charts">> >>,
      << <<"evil">>, <<"mcp", "other", "get_chart">> >>,
      <<>> }

\* what the child answers to the request numbered n of start: initialize
\* succeeds or fails, tools/list returns any tool list or a result without one
StartLines(n) ==
    IF n = 2
    THEN { [kind |-> "response", id |-> IntId(n), body |-> [result |-> [tools |-> ts]]] :
              ts \in ToolLists }
         \cup { [kind |-> "response", id |-> IntId(n), body |-> [result |-> EmptyObj]] }
    ELSE { [kind |-> "response", id |-> IntId(n), body |-> b] :
              b \in { [result |-> EmptyObj], [error |-> ErrObj] } }

InitTools == InitMcp /\ InitAgent /\ InitTasks /\ allowed_tools \in AllowLists

\* LMStudioAgent.start (__aenter__) against a child that answers at once
NextTools ==
    \/ StartStep(Agent)
    \/ SendRequest(Agent)
    \/ SendNotification(Agent)
    \/ Drain(Agent)
    \/ \E ln \in StartLines(request_id) : ReadLine(Agent, ln)
    \/ AgentStarted
    \/ AgentLlmStartFails
    \/ AgentStartFails

SpecTools == InitTools /\ [][NextTools]_vars

\* ------------------------------------------ one tool call with any result
\* content parts of a tools/call result
Parts ==
    { TextPart("r"), TextPart(""), ImagePart, [type |-> "text"], [text |-> "x"] }

\* results of tools/call: with or without content, with or without isError
CallResults ==
    LET contents == UNION { [1..n -> Parts] : n \in 0..MaxParts }
        withContent == { [content |-> c] : c \in contents } \cup { EmptyObj }
    IN  withContent
        \cup { [k \in DOMAIN r \cup {"isError"} |-> IF k = "isError" THEN b ELSE r[k]] :
                  r \in withContent, b \in BOOLEAN }

\* the child answers every request at once: the requests of start with an empty
\* result, tools/call with any result
CallLines(n) ==
    { [kind |-> "response", id |-> IntId(n), body |-> [result |-> r]] :
          r \in IF n <= 2 THEN {EmptyObj} ELSE CallResults }

\* the agent is started and query runs one turn in which the model asks for
\* one tool
NextCall ==
    \/ StartStep(Agent)
    \/ AgentStarted
    \/ QueryBegin(1)
    \/ Turn([content |-> <<ToolUse("A", "u1")>>, stop_reason |-> "tool_use"])
    \/ ToolDone
    \/ QueryBudget
    \/ SendRequest(Agent)
    \/ SendNotification(Agent)
    \/ Drain(Agent)
    \/ \E ln \in CallLines(request_id) : ReadLine(Agent, ln)

SpecCall == Init /\ [][NextCall]_vars

\* ------------------------------------------ a chat session of several queries
\* what the model answers in a chat: a final text, one tool, text and two tools
ChatResponses ==
    { [content |-> c, stop_reason |-> "end_turn"] :
          c \in { <<TextBlock("Hello")>>,
                  <<ToolUse("A", "u1")>>,
                  <<TextBlock("a"), ToolUse("B", "u2"), ToolUse("A", "u1")>> } }

\* the child answers every request at once: tools/call with a result or an error
ChatLines(n) ==
    { [kind |-> "response", id |-> IntId(n), body |-> b] :
          b \in IF n <= 2 THEN { [result |-> EmptyObj] }
                ELSE { [result |-> [content |-> <<TextPart("r")>>]], [error |-> ErrObj] } }

\* the chat loop: the agent is started and queries follow one another
NextChat ==
    \/ StartStep(Agent)
    \/ AgentStarted
    \/ \E mt \in 0..MaxTurns : QueryBegin(mt)
    \/ \E mt \in 0..MaxTurns : QueryAgain(mt)
    \/ \E r \in ChatResponses : Turn(r)
    \/ ToolDone
    \/ QueryBudget
    \/ SendRequest(Agent)
    \/ SendNotification(Agent)
    \/ Drain(Agent)
    \/ \E ln \in ChatLines(request_id) : ReadLine(Agent, ln)

SpecChat == Init /\ [][NextChat]_vars

\* ------------------------------------------ a model that names any tool
\* the child lists an allowed tool and one that is not allowed
OfferedList ==
    << [name |-> "list_charts", inputSchema |-> [type |-> "object"]],
       [name |-> "evil", description |-> "d",
        inputSchema |-> [type |-> "object", properties |-> [q |-> "string"],
                         required |-> <<"q">>]] >>

\* the model asks for the allowed tool, for the listed tool that was filtered
\* out, for a tool the child never listed, or answers
OfferResponses ==
    { [content |-> c, stop_reason |-> "tool_use"] :
          c \in { <<ToolUse("list_charts", "u1")>>,
                  <<ToolUse("evil", "u2")>>,
                  <<ToolUse("A", "u1")>>,
                  <<TextBlock("Hello")>> } }

\* the child answers every request at once; an unknown tool may be refused
OfferLines(n) ==
    { [kind |-> "response", id |-> IntId(n), body |-> b] :
          b \in IF n = 1 THEN { [result |-> EmptyObj] }
                ELSE IF n = 2 THEN { [result |-> [tools |-> OfferedList]] }
                ELSE { [result |-> [content |-> <<TextPart("r")>>]], [error |-> ErrObj] } }

NextOffer ==
    \/ StartStep(Agent)
    \/ AgentStarted
    \/ \E mt \in 0..MaxTurns : QueryBegin(mt)
    \/ \E r \in OfferResponses : Turn(r)
    \/ ToolDone
    \/ QueryBudget
    \/ SendRequest(Agent)
    \/ SendNotification(Agent)
    \/ Drain(Agent)
    \/ \E ln \in OfferLines(request_id) : ReadLine(Agent, ln)

SpecOffer == Init /\ [][NextOffer]_vars


\* =================================================================== claims
IsRequestFrame(f) == f.kind = "request"

\* the call of task t is a request that ended on a response line: its result was
\* returned, or its remote error object was raised
EndedOnResponse(t) ==
    /\ cpc[t] = "ret"
    /\ creq[t].kind = "request"
    /\ \/ cret[t].kind = "ok"
       \/ cret[t].kind = "raise" /\ cret[t].exc = "RuntimeError"
          /\ cret[t].text # "MCP subprocess stdout closed unexpectedly"

\* C4: a request sent with id n completes only on a response line whose id is n;
\* when the line read last is a response with another id, it was discarded: the
\* task is still reading, or its call failed without that line (EOF, cancelled).
C4_MatchingIdOnly ==
    \A t \in Tasks :
        /\ EndedOnResponse(t) =>
              /\ rline[t] = [kind |-> "response", id |-> IntId(cid[t])]
              /\ cret[t].kind = "ok" => cret[t].id = IntId(cid[t])
        /\ (rline[t].kind = "response" /\ rline[t].id # IntId(cid[t])) =>
              \/ cpc[t] = "read"
              \/ /\ cpc[t] = "ret"
                 /\ cret[t].kind = "raise"
                 /\ \/ cret[t].exc = "CancelledError"
                    \/ cret[t] = Raised("RuntimeError",
                                        "MCP subprocess stdout closed unexpectedly")

\* C4 witness: task t completed with the response to its id while task u, awaiting
\* a later id, has just read and discarded another response carrying t's id.
C4_Witness ==
    \E t, u \in Tasks :
        /\ t # u
        /\ cpc[t] = "ret" /\ cret[t].kind = "ok" /\ creq[t].method = "tools/call"
        /\ cret[t].id = IntId(cid[t])
        /\ cpc[u] = "read" /\ cid[u] > cid[t]
        /\ rline[u] = [kind |-> "response", id |-> IntId(cid[t])]

\* C5: the ids of the request frames on the wire are strictly increasing (so
\* pairwise distinct), none exceeds the counter, and two successive request frames
\* carry successive ids whatever notifications were written between them.
C5_IdsStrictlyIncreasing ==
    \A i, j \in DOMAIN wire :
        (i < j /\ IsRequestFrame(wire[i]) /\ IsRequestFrame(wire[j])) =>
            /\ 1 <= wire[i].id
            /\ wire[i].id < wire[j].id
            /\ wire[j].id <= request_id
            /\ (\A k \in (i+1)..(j-1) : ~IsRequestFrame(wire[k])) =>
                   wire[j].id = wire[i].id + 1

\* C5 witness: a call was abandoned after its request was numbered and written,
\* and a request written later, after a notification, carries a larger id.
C5_Witness ==
    \E t \in Tasks : \E i, j, k \in DOMAIN wire :
        /\ cpc[t] = "ret" /\ cret[t].kind = "raise" /\ cret[t].exc = "CancelledError"
        /\ cid[t] > 0
        /\ i < k /\ k < j
        /\ wire[i].id = cid[t] /\ IsRequestFrame(wire[i])
        /\ wire[k].kind = "notification"
        /\ IsRequestFrame(wire[j]) /\ wire[j].id > cid[t]

\* C6: a task whose frame is written and whose call has not ended holds the lock,
\* and its frame is the last frame on the wire (nothing was written after it);
\* a request that returned got the response carrying the id of its own frame.
C6_OneOutstanding ==
    \A t \in Tasks :
        /\ cpc[t] \in {"drain", "read"} =>
              /\ lock = t
              /\ wire # <<>>
              /\ wire[Len(wire)] = Frame(creq[t], cid[t])
        /\ (cpc[t] = "ret" /\ creq[t].kind = "request" /\ cret[t].kind = "ok") =>
              /\ cret[t].id = IntId(cid[t])
              /\ \E i \in DOMAIN wire : wire[i] = Frame(creq[t], cid[t])
              /\ \A u \in Tasks \ {t} : cid[u] # cid[t]

\* C6 witness: one task's request is outstanding while the other task, already
\* inside call_tool, waits for the exclusive section.
C6_Witness ==
    \E t, u \in Callers :
        /\ t # u
        /\ cpc[t] = "read" /\ creq[t].method = "tools/call"
        /\ cpc[u] = "acquire" /\ creq[u].method = "tools/call"

\* a step of stop()
IsStopStep == stops' # stops \/ stoppc' # stoppc

\* C8: stop() never raises; when it returns the client holds no live process
\* (never spawned, or exit status recorded); and a stop() called in such a state
\* returns at once, sends no signal and changes nothing of the client.
C8_StopNeverRaisesIdempotent ==
    [][ /\ stopret' # "raised"
        /\ stops' # stops => (~handle' \/ returncode')
        /\ (IsStopStep /\ stops >= 1 /\ stoppc = "idle" /\ (~handle \/ returncode)) =>
              /\ stops' = stops + 1
              /\ stoppc' = "idle"
              /\ UNCHANGED <<procVars, wireVars, startpc, callVars>>
      ]_vars

\* C8 witness: start failed after the process was spawned, the first stop() had
\* to kill the child, and stop() was called again.
C8_Witness ==
    /\ startpc = "failed"
    /\ handle
    /\ signals = <<"SIGTERM", "SIGKILL">>
    /\ stops >= 2
    /\ stopret = "returned"

\* ------------------------------------------------- claims on LMStudioAgent
IsPrefix(s, t) == Len(s) <= Len(t) /\ SubSeq(t, 1, Len(s)) = s

\* the tools/call frames written to the child
CallFrames == SelectSeq(wire, LAMBDA f : f.method = "tools/call")

\* C1: query makes at most max_turns model requests; when each of them came back
\* with a tool_use block, query returns the max-turns sentinel together with the
\* tool-call history accumulated so far; the history only grows by appending.
C1_TurnBudget ==
    /\ nreq <= max_turns
    /\ turn <= nreq
    /\ IsPrefix(prev_calls, tool_calls_made)
    /\ (qpc = "done" /\ turn = max_turns) =>
          /\ nreq = max_turns
          /\ qresult = AgentReturn(MaxTurnsSentinel, tool_calls_made)
          /\ tool_calls_made = prev_calls
          /\ Len(tool_calls_made) >= turn

\* C1 witness: a query with max_turns = MaxTurns whose every response asked for
\* tools ended on the sentinel, with the calls of all turns in its history
C1_Witness ==
    /\ qpc = "done"
    /\ max_turns = MaxTurns
    /\ turn = MaxTurns
    /\ nreq = MaxTurns
    /\ qresult.text = MaxTurnsSentinel
    /\ Len(qresult.tool_calls_made) > MaxTurns

\* C2: an assistant message with k tool_use blocks is followed by one user message
\* of exactly k tool_result blocks whose tool_use_id are the ids of the tool_use
\* blocks in their order; while the blocks are being dispatched the results so far
\* are those of the blocks already done; no call outcome ends the query instead.
C2_ResultsPairWithUses ==
    /\ \A i \in DOMAIN messages :
          messages[i].role = "assistant" =>
             LET uses == OfType(messages[i].content, "tool_use")
             IN  /\ Len(uses) >= 1
                 /\ IF i < Len(messages)
                    THEN /\ messages[i + 1].role = "user"
                         /\ Len(messages[i + 1].content) = Len(uses)
                         /\ \A j \in DOMAIN uses :
                               /\ messages[i + 1].content[j].type = "tool_result"
                               /\ messages[i + 1].content[j].tool_use_id = uses[j].id
                         /\ (i + 1 < Len(messages)) => messages[i + 2].role = "assistant"
                    ELSE /\ qpc = "tool"
                         /\ uses = tool_uses
                         /\ Len(tool_results) = tuIdx - 1
                         /\ \A j \in DOMAIN tool_results :
                               /\ tool_results[j].type = "tool_result"
                               /\ tool_results[j].tool_use_id = uses[j].id
    /\ qpc = "tool" => messages[Len(messages)].role = "assistant"
    /\ qpc = "raised" => qresult = AgentRaise("HTTPStatusError")

\* C2 witness: a turn with two tool_use blocks, the first call failed and the
\* second succeeded, ended with its two results in the order of the blocks
C2_Witness ==
    /\ qpc = "loop"
    /\ Len(messages) = 3
    /\ Len(OfType(messages[2].content, "tool_use")) = 2
    /\ Len(messages[3].content) = 2
    /\ messages[3].content[1].tool_use_id = "u2"
    /\ messages[3].content[1].is_error
    /\ messages[3].content[2].tool_use_id = "u1"
    /\ ~messages[3].content[2].is_error

\* the step is the agent taking the outcome of a finished call_tool
IsToolDoneStep == qpc = "tool" /\ cpc[Agent] = "ret" /\ cpc'[Agent] # "ret"

\* C3: a call_tool that raised (remote error object, closed stream, any other
\* exception) does not end query: its tool_result has is_error true and the text
\* "MCP error: " followed by the exception's text, the next tool_use block of the
\* turn is dispatched, and after the last block the results are appended and the
\* loop goes on; the only exception that leaves query is the model request's.
C3_ToolFailureIsData ==
    [][ /\ (IsToolDoneStep /\ cret[Agent].kind = "raise") =>
             LET r == [type |-> "tool_result", tool_use_id |-> tool_uses[tuIdx].id,
                       content |-> "MCP error: " \o cret[Agent].text,
                       is_error |-> TRUE]
             IN  /\ tool_results' = Append(tool_results, r)
                 /\ IF tuIdx < Len(tool_uses)
                    THEN /\ qpc' = "tool"
                         /\ cpc'[Agent] = "acquire"
                         /\ creq'[Agent] = Request("tools/call", tool_uses[tuIdx + 1].name)
                         /\ messages' = messages
                    ELSE /\ qpc' = "loop"
                         /\ turn' = turn + 1
                         /\ messages' = Append(messages,
                                               [role |-> "user", content |-> tool_results'])
        /\ qpc' = "raised" => qresult' = AgentRaise("HTTPStatusError")
      ]_vars

\* C3 witness: the results fed back to the model hold a remote error, an
\* exception of another kind and a closed stream, each labelled, and the loop
\* went on after each of them
C3_Witness ==
    /\ qpc = "loop"
    /\ Len(messages) = 5
    /\ Len(messages[3].content) = 2
    /\ messages[3].content[1].content = "MCP error: MCP error -32000: boom"
    /\ messages[3].content[1].is_error
    /\ messages[3].content[2].is_error
    /\ messages[3].content[2].content # messages[3].content[1].content
    /\ messages[5].content[1].content = "MCP error: MCP subprocess stdout closed unexpectedly"
    /\ messages[5].content[1].is_error

\* C7 (contradicted by the code): when the agent's lifecycle has ended, by
\* __aexit__ or by an exception out of __aenter__ or stop, no spawned child is
\* still running.
C7_NoChildLeftRunning ==
    apc \in {"exited", "failed"} => child # "running"

\* C9: after a model response without tool_use blocks query has returned on that
\* turn: no call_tool was issued for it (the calls and the tools/call frames are
\* those of the earlier turns), it was the last model request, and the returned
\* history is the history at the end of the previous turn.
C9_NoToolUseTerminates ==
    (nreq > 0 /\ qpc \in {"loop", "tool", "done"} /\ OfType(content, "tool_use") = <<>>) =>
        /\ qpc = "done"
        /\ qresult.kind = "return"
        /\ qresult.tool_calls_made = prev_calls
        /\ tool_calls_made = prev_calls
        /\ nreq = turn + 1
        /\ cpc[Agent] = "idle"
        /\ Len(CallFrames) = Len(prev_calls)
        /\ turn = 0 => qresult.tool_calls_made = <<>>
        /\ (turn = 0 /\ content = <<TextBlock("Hello")>>) =>
              qresult = AgentReturn("Hello", <<>>)

\* C9 witness: the second response had no tool_use block; query returned the
\* two calls of the first turn
C9_Witness ==
    /\ qpc = "done"
    /\ nreq = 2
    /\ turn = 1
    /\ OfType(content, "tool_use") = <<>>
    /\ qresult.tool_calls_made = <<"B", "A">>

\* query returned on a turn without tool_use blocks
TerminatingTurn == qpc = "done" /\ nreq = turn + 1

\* C10: the returned text is never ""; on a terminating turn it is the text
\* blocks of the response joined by newlines, and "(no text response)" when
\* that join is empty (no content, no text block, only empty text).
C10_TextNeverEmpty ==
    /\ qresult.kind = "return" => qresult.text # ""
    /\ TerminatingTurn =>
          LET joined == Join(Texts(OfType(content, "text")))
          IN  /\ joined # "" => qresult.text = joined
              /\ joined = "" => qresult.text = "(no text response)"
              /\ content \in {<<>>, <<TextBlock("")>>, <<[type |-> "text"]>>} =>
                    qresult.text = "(no text response)"
              /\ content = <<TextBlock("a"), [type |-> "thinking"], TextBlock("b")>> =>
                    qresult.text = "a\nb"
              /\ content = <<TextBlock(""), TextBlock("")>> => qresult.text = "\n"

\* C10 witness: the response held one empty text block and the sentinel was
\* returned
C10_Witness ==
    /\ TerminatingTurn
    /\ content = <<TextBlock("")>>
    /\ qresult.text = NoTextSentinel

\* ---------------------------------------- claims on the tool schema adapter
\* C11: after LMStudioAgent.start returned, the names of the schemas handed to
\* the model are exactly the names, in order, of the returned tools whose name is
\* in the allow-list (the last "__" segment of an ALLOWED_TOOLS entry): none
\* outside it, and every returned tool inside it.
C11_OnlyAllowedTools ==
    apc = "entered" =>
        LET bare == { allowed_tools[i][Len(allowed_tools[i])] : i \in DOMAIN allowed_tools }
            inside == { i \in DOMAIN tools : tools[i].name \in bare }
        IN  /\ \A j \in DOMAIN tools_anthropic : tools_anthropic[j].name \in bare
            /\ Len(tools_anthropic) = Cardinality(inside)
            /\ \A i \in inside :
                  tools_anthropic[Cardinality({k \in inside : k <= i})].name = tools[i].name

\* C11 witness: of two returned tools the one outside the allow-list was dropped
\* and the other handed on
C11_Witness ==
    /\ apc = "entered"
    /\ Len(tools) = 2
    /\ tools[1].name = "evil"
    /\ tools[2].name = "list_charts"
    /\ Len(allowed_tools) = 2
    /\ Len(tools_anthropic) = 1
    /\ tools_anthropic[1].name = "list_charts"

\* C12 (contradicted by the code): for every returned tool list whose tools have
\* a name, the adapter does not raise and every input_schema it produced has a
\* non-null "properties".
C12_PropertiesNeverNull ==
    (startpc = "done" /\ apc # "start"
       /\ \A i \in DOMAIN tools : "name" \in DOMAIN tools[i]) =>
        /\ starterr = "none"
        /\ \A j \in DOMAIN tools_anthropic :
              /\ "properties" \in DOMAIN tools_anthropic[j].input_schema
              /\ tools_anthropic[j].input_schema.properties # Null

\* --------------------------------------------- claims on the handshake
InitializeFrame == [kind |-> "request", id |-> 1, method |-> "initialize", name |-> "-"]

\* C13: the initialize request returns only on a response with its id and no
\* error object: when the stream ends first, or that response carries an error
\* object, the request raises; start then raises without writing another frame
\* (no initialized notification, no tools/list) and without a tool list, and
\* stays failed.
C13_StartFailsOnBadHandshake ==
    [][ /\ (startpc = "init" /\ cpc["c1"] = "read" /\ cpc'["c1"] = "ret") =>
             (cret'["c1"].kind = "ok" <=>
                 (msg'["c1"] # NoLine /\ Get(msg'["c1"], "error", Null) = Null))
        /\ (startpc = "init" /\ cpc["c1"] = "ret" /\ cret["c1"].kind = "raise") =>
             /\ startpc' \in {"init", "failed"}
             /\ wire' = wire
             /\ tools' = tools
        /\ startpc = "init" => wire \in {<<>>, <<InitializeFrame>>}
        /\ startpc = "failed" =>
             /\ startpc' = "failed"
             /\ wire' = wire
             /\ tools' = tools
             /\ cpc'["c1"] = "idle"
      ]_vars

\* C13 witness: the child exited during the initialize request, start has
\* failed and the initialize frame is all that was written
C13_Witness ==
    /\ startpc = "failed"
    /\ child = "exited"
    /\ stops = 0
    /\ wire = <<InitializeFrame>>
    /\ tools = <<>>

\* ------------------------------------------------ claims on the read loop
NoiseKinds == {"blank", "nonjson", "nonobject", "undecodable", "notification"}

\* C14 (contradicted by the code): a line that is not the matching response
\* never fails the read loop: after such a line the call is still reading, or
\* it ended for another reason (EOF, cancellation), never with the exception of
\* decoding or inspecting that line.
C14_NoiseIsSkipped ==
    \A t \in Tasks :
        rline[t].kind \in NoiseKinds =>
            \/ cpc[t] = "read"
            \/ /\ cpc[t] = "ret"
               /\ cret[t].kind = "raise"
               /\ cret[t].exc \notin {"TypeError", "UnicodeDecodeError"}

\* C15: a call that ended on the response with its id raised RuntimeError
\* "MCP error <code>: <message>" of the remote error object when the response has
\* a non-null error member, with no result returned; otherwise it returned the
\* response's result, the empty object when there is none.
C15_ErrorObjectRaises ==
    \A t \in Tasks :
        (cpc[t] = "ret" /\ msg[t] # NoLine) =>
            IF "error" \in DOMAIN msg[t] /\ msg[t].error # Null
            THEN /\ cret[t].kind = "raise"
                 /\ cret[t].exc = "RuntimeError"
                 /\ cret[t].text = "MCP error " \o msg[t].error.code \o ": "
                                      \o msg[t].error.message
            ELSE /\ cret[t].kind = "ok"
                 /\ "result" \in DOMAIN msg[t] => cret[t].value = msg[t].result
                 /\ "result" \notin DOMAIN msg[t] => cret[t].value = EmptyObj

\* C15 witness: one call raised the remote error "-32000"/"boom", another
\* returned the result of a response whose error member is null
C15_Witness ==
    /\ cpc["c1"] = "ret"
    /\ msg["c1"] = [error |-> ErrObj]
    /\ cret["c1"] = Raised("RuntimeError", "MCP error -32000: boom")
    /\ cpc["c2"] = "ret"
    /\ "error" \in DOMAIN msg["c2"]
    /\ msg["c2"].error = Null
    /\ cret["c2"].kind = "ok"
    /\ cret["c2"].value = msg["c2"].result

\* C16: when the read of a pending request ends without a line (EOF), the child
\* has closed its output and the call raises RuntimeError "MCP subprocess stdout
\* closed unexpectedly": no result; and a call that raised is handed to its
\* caller as it is: the request is not written again and no id is issued.
C16_EOFFailsWithoutRetry ==
    [][ /\ (cpc["c1"] = "read" /\ cpc'["c1"] = "ret" /\ rline'["c1"] = rline["c1"]) =>
             /\ child = "exited"
             /\ cret'["c1"].kind = "raise"
             /\ cret'["c1"].exc = "RuntimeError"
             /\ cret'["c1"].text = "MCP subprocess stdout closed unexpectedly"
             /\ wire' = wire
             /\ request_id' = request_id
        /\ (cpc["c1"] = "ret" /\ cret["c1"].kind = "raise") =>
             /\ cpc'["c1"] \in {"ret", "idle"}
             /\ wire' = wire
             /\ request_id' = request_id
      ]_vars

\* C16 witness: stop() terminated the child while tools/list was pending; the
\* request failed on EOF and its frame was written once
C16_Witness ==
    /\ startpc = "list"
    /\ cpc["c1"] = "ret"
    /\ cret["c1"] = Raised("RuntimeError", "MCP subprocess stdout closed unexpectedly")
    /\ signals # <<>>
    /\ request_id = 2
    /\ Len(SelectSeq(wire, LAMBDA f : f.method = "tools/list")) = 1

\* C17 (contradicted by the code): a request that was written and is awaiting
\* its response eventually ends, by a return or by an exception, whatever the
\* child does.
C17_EveryRequestTerminates ==
    (cpc["c1"] = "read") ~> (cpc["c1"] \in {"ret", "idle"})

\* ------------------------------------------- claims on failures in query
ClosedStreamText == "MCP error: MCP subprocess stdout closed unexpectedly"

\* C18 (contradicted by the code): after a tool call of query failed on the
\* closed stream of the child, no further model request is answered: no
\* assistant message follows a tool_result that reports the closed stream.
C18_ClosedStreamEndsQuery ==
    \A i \in DOMAIN messages :
        (i > 1 /\ messages[i].role = "user"
           /\ \E j \in DOMAIN messages[i].content :
                 messages[i].content[j].content = ClosedStreamText)
        => i = Len(messages)

\* C19: once a model request has failed, query has raised that error on the
\* same turn: the failed request was its last (one more than the turns
\* completed), no tool call was made for it, no AgentResponse exists, and
\* nothing of this changes afterwards.
C19_ModelFailureRaises ==
    [][ /\ qresult.kind = "raise" =>
             /\ qpc = "raised"
             /\ qresult = [kind |-> "raise", text |-> "HTTPStatusError"]
             /\ nreq = turn + 1
             /\ tool_calls_made = prev_calls
             /\ Len(CallFrames) = Len(prev_calls)
             /\ cpc[Agent] = "idle"
        /\ qpc = "raised" =>
             /\ qresult.kind = "raise"
             /\ UNCHANGED <<qpc, qresult, nreq, turn, tool_calls_made, wire, request_id>>
             /\ cpc'[Agent] = "idle"
      ]_vars

\* C19 witness: the second model request failed after a turn with two tool
\* calls; query raised
C19_Witness ==
    /\ qpc = "raised"
    /\ qresult.kind = "raise"
    /\ nreq = 2
    /\ turn = 1
    /\ tool_calls_made = <<"B", "A">>

\* --------------------------------------------------- claims on call_tool
IsTextPart(p) == "type" \in DOMAIN p /\ p.type = "text"

\* the "text" members of the text parts, in order, separated by newlines
RECURSIVE TextJoin(_)
TextJoin(parts) ==
    IF parts = <<>> THEN ""
    ELSE IF ~IsTextPart(Head(parts)) THEN TextJoin(Tail(parts))
    ELSE LET own == IF "text" \in DOMAIN Head(parts) THEN Head(parts).text ELSE ""
         IN  IF \E i \in DOMAIN Tail(parts) : IsTextPart(Tail(parts)[i])
             THEN own \o "\n" \o TextJoin(Tail(parts))
             ELSE own

\* C20: the (text, is_error) that call_tool returned for a result, as query puts
\* it in the tool_result: the text is the newline-join, in order, of the "text"
\* of the parts of type "text" ("" without such parts or without content), and
\* is_error is the result's isError, false when it has none.
C20_CallToolTextAndFlag ==
    [][ (IsToolDoneStep /\ cret[Agent].kind = "ok") =>
            LET result == cret[Agent].value
                parts == IF "content" \in DOMAIN result THEN result.content ELSE <<>>
                new == tool_results'[Len(tool_results')]
            IN  /\ new.content = TextJoin(parts)
                /\ new.is_error = (IF "isError" \in DOMAIN result THEN result.isError ELSE FALSE)
                /\ (\A i \in DOMAIN parts : ~IsTextPart(parts[i])) => new.content = ""
                /\ parts = <<ImagePart, TextPart("r")>> => new.content = "r"
                /\ parts = <<TextPart("r"), TextPart("")>> => new.content = "r\n"
      ]_vars

\* C20 witness: the result held a text part and a text part without "text", and
\* isError true; the tool_result carries "r\n" and is_error
C20_Witness ==
    /\ qpc = "loop"
    /\ Len(messages) = 3
    /\ messages[3].content[1].content = "r\n"
    /\ messages[3].content[1].is_error

\* ------------------------------------------------------- claims on stop
\* C21: stop() of a live process sends SIGTERM first; SIGKILL is sent only from
\* the expired wait, to a child that is still running, and so only after a
\* SIGTERM; and when stop() returns the child is not running.
C21_TwoPhaseStop ==
    [][ /\ (stoppc = "idle" /\ stoppc' = "wait" /\ child = "running") =>
             signals' = Append(signals, "SIGTERM")
        /\ signals' # signals =>
             /\ Len(signals') = Len(signals) + 1
             /\ signals'[Len(signals')] = "SIGKILL" =>
                   /\ stoppc = "wait"
                   /\ child = "running"
                   /\ signals # <<>>
                   /\ signals[Len(signals)] = "SIGTERM"
                   /\ child' = "exited"
        /\ stops' # stops => child' # "running"
      ]_vars

\* C21 witness: the child ignored SIGTERM, the wait expired and the first stop()
\* returned after the kill
C21_Witness ==
    /\ stops = 1
    /\ stoppc = "idle"
    /\ signals = <<"SIGTERM", "SIGKILL">>
    /\ child = "exited"
    /\ startpc = "done"

\* ------------------------------------------------------- claims on the history
\* the roles of a history alternate, starting with the user
Alternates(h) ==
    \A i \in DOMAIN h : h[i].role = IF i % 2 = 1 THEN "user" ELSE "assistant"

\* query is inside its loop
InLoop == apc = "query" /\ qpc \in {"loop", "tool"}

\* C22: inside query the history starts with the user message and alternates
\* user and assistant; it holds that message and two messages for every finished
\* turn, and the assistant message of a running turn.  A turn with tool_use
\* blocks appends the model's content as it came, the end of its tool loop
\* appends one user message of the tool results, and no other step changes the
\* history.  A query that starts, the first or a later one, starts from the
\* user message alone.
C22_HistoryAppendOnly ==
    /\ [](InLoop =>
            /\ messages # <<>>
            /\ Alternates(messages)
            /\ messages[1] = [role |-> "user", content |-> "hi"]
            /\ Len(messages) = 1 + 2 * turn + (IF qpc = "tool" THEN 1 ELSE 0))
    /\ [][  /\ (qpc = "loop" /\ qpc' = "tool") =>
                 /\ messages' = Append(messages, [role |-> "assistant", content |-> content'])
                 /\ OfType(content', "tool_use") # <<>>
            /\ (InLoop /\ turn' = turn + 1) =>
                 /\ messages' = Append(messages, [role |-> "user", content |-> tool_results'])
                 /\ Len(tool_results') = Len(tool_uses)
            /\ (InLoop /\ InLoop' /\ turn' = turn /\ qpc' = qpc) => messages' = messages
            /\ (nreq' = 0 /\ qpc' = "loop" /\ qpc # "loop") =>
                 messages' = << [role |-> "user", content |-> "hi"] >>
          ]_vars

\* C22 witness: a later query of a session starts, after an earlier one that
\* called tools, and its second turn is reached with a history of three messages
C22_Witness ==
    /\ InLoop
    /\ qpc = "loop"
    /\ turn = 1
    /\ Len(messages) = 3
    /\ Len(messages[2].content) = 3
    /\ request_id = MaxChatReq + 1

\* the tool_use blocks of the assistant messages of a history, in order
RECURSIVE HistoryUses(_)
HistoryUses(h) ==
    IF h = <<>> THEN <<>>
    ELSE (IF Head(h).role = "assistant" THEN OfType(Head(h).content, "tool_use") ELSE <<>>)
         \o HistoryUses(Tail(h))

UseNames(uses) == [i \in 1..Len(uses) |-> uses[i].name]

\* the tool_use blocks dispatched so far: those of the finished turns and the
\* first tuIdx of the running one
DispatchedUses ==
    IF qpc = "tool"
    THEN HistoryUses(SubSeq(messages, 1, Len(messages) - 1)) \o SubSeq(tool_uses, 1, tuIdx)
    ELSE HistoryUses(messages)

\* C23: inside query the recorded names are the names of the tool_use blocks
\* dispatched so far, over all turns and in the model's order, whatever their
\* calls came to.  A name is recorded only when no call of the query is in
\* progress, together with the dispatch of the next block of the turn; the
\* tools/call written to the child is the one recorded last; and the history
\* query returns is the recorded one.
C23_CallsInModelOrder ==
    /\ [](InLoop => tool_calls_made = UseNames(DispatchedUses))
    /\ [][  /\ (tool_calls_made' # tool_calls_made /\ tool_calls_made' # <<>>) =>
                 /\ cpc[Agent] \in {"idle", "ret"}
                 /\ cpc'[Agent] = "acquire"
                 /\ tuIdx' = IF qpc = "loop" THEN 1 ELSE tuIdx + 1
                 /\ tool_calls_made' = Append(tool_calls_made, tool_uses'[tuIdx'].name)
                 /\ creq'[Agent] = Request("tools/call", tool_uses'[tuIdx'].name)
            /\ (Len(wire') > Len(wire) /\ wire'[Len(wire')].method = "tools/call") =>
                 /\ tool_calls_made # <<>>
                 /\ wire'[Len(wire')].name = tool_calls_made[Len(tool_calls_made)]
            /\ (qpc = "loop" /\ qpc' = "done") =>
                 qresult'.tool_calls_made = tool_calls_made
          ]_vars

\* C23 witness: two turns of tool calls, the first with two blocks, returned
\* with the three names in the model's order although the child exited and
\* calls failed
C23_Witness ==
    /\ qpc = "done"
    /\ qresult.kind = "return"
    /\ qresult.tool_calls_made = <<"B", "A", "A">>
    /\ apc = "query"
    /\ child = "exited"

\* --------------------------------------------- claims on the wire order
MethodAt(i) == wire[i].method

\* this step enters a request or notification of method m for the agent
Enters(m) ==
    /\ cpc[Agent] # "acquire"
    /\ cpc'[Agent] = "acquire"
    /\ creq'[Agent].method = m

\* C24: on the wire the first frame is the initialize request with id 1, the
\* initialized notification is the second frame and nothing else is, tools/list
\* is the third and nothing else is, and a tools/call is written only once
\* start has returned its tool list to the agent.  The notification is entered
\* only from an initialize request that returned a result, tools/list only
\* from a notification that was written.
C24_HandshakeOrder ==
    /\ [](\A i \in DOMAIN wire :
            /\ (i = 1) <=> (wire[i] = InitializeFrame)
            /\ (i = 2) <=> (MethodAt(i) = "notifications/initialized")
            /\ (i = 3) <=> (MethodAt(i) = "tools/list")
            /\ (i > 3) <=> (MethodAt(i) = "tools/call")
            /\ (MethodAt(i) = "tools/call") =>
                 (startpc = "done" /\ apc # "start"))
    /\ [][  /\ Enters("notifications/initialized") =>
                 /\ creq[Agent] = Request("initialize", "-")
                 /\ cret[Agent].kind = "ok"
                 /\ Len(wire) = 1
            /\ Enters("tools/list") =>
                 /\ creq[Agent] = Notification("notifications/initialized")
                 /\ cret[Agent].kind = "ok"
                 /\ Len(wire) = 2
            /\ Enters("tools/call") =>
                 (startpc = "done" /\ apc \in {"entered", "query"} /\ Len(wire) >= 3)
          ]_vars

\* C24 witness: the handshake was written in order and the first tools/call of a
\* query follows it
C24_Witness ==
    /\ Len(wire) = 4
    /\ MethodAt(1) = "initialize"
    /\ MethodAt(2) = "notifications/initialized"
    /\ MethodAt(3) = "tools/list"
    /\ MethodAt(4) = "tools/call"
    /\ cpc[Agent] = "read"

\* --------------------------------------------- claims on the offered tools
\* C25 (contradicted by the code): the names of the tools handed to the model
\* are pairwise distinct, whatever tool list tools/list returned.
C25_OfferedNamesDistinct ==
    \A i, j \in DOMAIN tools_anthropic :
        i # j => tools_anthropic[i].name # tools_anthropic[j].name

\* the names of the tools handed to the model
OfferedNames == { tools_anthropic[j].name : j \in DOMAIN tools_anthropic }

\* C26 (contradicted by the code): every tools/call written to the child names
\* a tool of the set that was offered to the model.
C26_OnlyOfferedToolsCalled ==
    \A i \in DOMAIN wire :
        MethodAt(i) = "tools/call" => wire[i].name \in OfferedNames

\* ------------------------------------------------ claims on the lock
\* task t is between the write of its frame and the end of its call
InProgress(t) == cpc[t] \in {"drain", "read"}

\* C27: the lock is held only by a task whose request or notification is in
\* progress, so it is free whenever none is and a call that waits for it after
\* another call failed can enter; and the step that ends a call in progress,
\* by a result, a remote error, EOF, a failed write or a cancellation, leaves
\* the lock free.
C27_LockReleasedOnEveryExit ==
    /\ [](/\ lock # "free" => (lock \in Tasks /\ InProgress(lock))
          /\ (\A u \in Tasks : ~InProgress(u)) => lock = "free")
    /\ [][ \A t \in Tasks :
             (InProgress(t) /\ cpc'[t] = "ret") => (lock = t /\ lock' = "free") ]_vars

\* C27 witness: a caller was cancelled while it waited for its response, and
\* the other caller's later request has entered the exclusive section
C27_Witness ==
    \E t, u \in Callers :
        /\ cpc[t] = "ret"
        /\ cret[t] = Raised("CancelledError", "")
        /\ cid[t] > 0
        /\ lock = u
        /\ cpc[u] = "read"
        /\ cid[u] > cid[t]

\* ------------------------------------------ claims on abandoned calls
\* task t gave up a request after its frame with id cid[t] was written
Abandoned(t) ==
    /\ cpc[t] = "ret"
    /\ creq[t].kind = "request"
    /\ cret[t] = Raised("CancelledError", "")
    /\ cid[t] > 0

\* the line task u read last is the response to the request task t gave up
ReadAbandoned(u, t) ==
    /\ rline[u].kind = "response"
    /\ rline[u].id = IntId(cid[t])

\* C28: while a request that was given up after its frame was written is still
\* known, a later request of another task never returns a result carrying the
\* id of the given-up request, and a step after which the line that task read
\* last is the response to the given-up request does not end its call with a
\* result: the line was discarded and the task goes on waiting for its own id.
C28_AbandonedResponseDiscarded ==
    /\ [](\A t, u \in Tasks :
            (t # u /\ Abandoned(t) /\ cpc[u] = "ret" /\ cret[u].kind = "ok"
               /\ creq[u].kind = "request") =>
                 (cret[u].id # IntId(cid[t]) /\ cret[u].id = IntId(cid[u])))
    /\ [][ \A t, u \in Tasks :
             (t # u /\ Abandoned(t) /\ cpc[u] = "read" /\ ReadAbandoned(u, t)') =>
                 (cpc'[u] = "ret" => cret'[u].kind = "raise") ]_vars

\* C28 witness: the other caller, waiting for the response to the next id, has
\* just read the late response to the given-up request and is still waiting
C28_Witness ==
    \E t, u \in Callers :
        /\ t # u
        /\ Abandoned(t)
        /\ cpc[u] = "read"
        /\ cid[u] = cid[t] + 1
        /\ ReadAbandoned(u, t)

\* ------------------------------------------ claims on the exhausted budget
\* the step in which query leaves its loop without a model request
BudgetStep == qpc = "loop" /\ qpc' = "done" /\ nreq' = nreq

\* when the budget is exhausted, max_turns model requests were made, every
\* tool_use block the model sent was dispatched and written as a tools/call, and
\* the returned history is the recorded one
AllDispatched ==
    /\ nreq = max_turns
    /\ turn = max_turns
    /\ tool_calls_made = UseNames(HistoryUses(messages))
    /\ Len(CallFrames) = Len(HistoryUses(messages))
    /\ qresult' = AgentReturn(MaxTurnsSentinel, tool_calls_made)

\* the history ends with the user message of the tool results of the last
\* assistant message, appended after the last model request
EndsWithToolResults ==
    /\ Len(messages) >= 3
    /\ Len(messages) = 1 + 2 * nreq
    /\ LET last == messages[Len(messages)]
           uses == OfType(messages[Len(messages) - 1].content, "tool_use")
       IN  /\ last.role = "user"
           /\ Len(last.content) = Len(uses)
           /\ \A j \in DOMAIN uses :
                 /\ last.content[j].type = "tool_result"
                 /\ last.content[j].tool_use_id = uses[j].id

\* C29 as stated (contradicted for max_turns = 0): whenever query ends by
\* exhaustion of its turn budget, all blocks were dispatched, max_turns requests
\* were made and the history ends with a tool-result user message.
C29_Original == [][BudgetStep => (AllDispatched /\ EndsWithToolResults)]_vars

\* C29: whenever query ends by exhaustion of its turn budget, max_turns model
\* requests were made and every tool_use block of every turn was dispatched;
\* with max_turns >= 1 the history ends with the tool-result user message of
\* the last turn, which no request carried; with max_turns = 0 no request was
\* made and the history is the user's message alone.
C29_BudgetExhaustion ==
    [][BudgetStep =>
          /\ AllDispatched
          /\ IF max_turns >= 1
             THEN EndsWithToolResults
             ELSE messages = << [role |-> "user", content |-> "hi"] >> /\ nreq = 0
      ]_vars

\* C29 witness: the budget of MaxTurns turns is used up, the last turn's two
\* tool calls were made and their results appended, and no request follows
C29_Witness ==
    /\ qpc = "loop"
    /\ max_turns = MaxTurns
    /\ turn = max_turns
    /\ nreq = max_turns
    /\ Len(messages) = 1 + 2 * MaxTurns
    /\ Len(messages[Len(messages)].content) = 2
    /\ Len(CallFrames) = Len(tool_calls_made)

====
